---- MODULE Spec2Model ----
(***************************************************************************)
(* Evidence ledger and verification of src/app.py (Trust-Mapper tab).      *)
(*                                                                         *)
(* Text is modelled as a sequence of characters.  A character is a TLA+    *)
(* string: one-character strings stand for themselves, LF CR TAB LS name   *)
(* U+000A U+000D U+0009 U+2028, EACUTE names a non-ASCII letter, BAD names *)
(* a byte that is not valid UTF-8, and a multi-letter word ("sha256",      *)
(* "null", ...) stands for that run of ordinary letters taken as a unit.   *)
(* Python values are records tagged by their type t.                       *)
(***************************************************************************)
EXTENDS Integers, Sequences, FiniteSets, TLC

\* ---------------------------------------------------------------- bounds
MaxDocLen == 1
MaxLedger == 2
RecursionLimit == 3

\* ------------------------------------------------------------ characters
QUOTE == "\""
BSLASH == "\\"
LF == "LF"
CR == "CR"
TAB == "TAB"
LS == "LS"
EACUTE == "EACUTE"
BAD == "BAD"
SP == " "

Digits == <<"0", "1", "2", "3", "4", "5", "6", "7", "8", "9">>
DigitSet == {Digits[i] : i \in 1..10}
DigitVal(c) == CHOOSE i \in 0..9 : Digits[i + 1] = c

\* str.splitlines() boundaries that can occur in the modelled alphabet
LineBreaks == {LF, CR, LS}
\* str.strip() whitespace that can remain inside a line
StripWS == {SP, TAB}
\* whitespace skipped by the json decoder (WHITESPACE regex " \t\n\r")
JsonWS == {SP, TAB, LF, CR}

\* ---------------------------------------------------------- Python values
PyStr(s) == [t |-> "str", s |-> s]
PyInt(n) == [t |-> "int", n |-> n]
PyDict(keys, vals) == [t |-> "dict", keys |-> keys, vals |-> vals]
PyList(vals) == [t |-> "list", vals |-> vals]
PyNone == [t |-> "None"]
PyBool(b) == [t |-> "bool", b |-> b]

\* position of key k in a dict's key sequence, 0 when absent
KeyIndex(keys, k) ==
  IF \E i \in 1..Len(keys) : keys[i] = k
  THEN CHOOSE i \in 1..Len(keys) : keys[i] = k
  ELSE 0

\* d[k] = v on a dict: an existing key keeps its position
DictSet(d, k, v) ==
  LET i == KeyIndex(d.keys, k) IN
  IF i = 0 THEN PyDict(Append(d.keys, k), Append(d.vals, v))
  ELSE PyDict(d.keys, [d.vals EXCEPT ![i] = v])

\* dict.get(k): the value, or None when the key is absent
DictGet(d, k) ==
  LET i == KeyIndex(d.keys, k) IN
  IF i = 0 THEN PyNone ELSE d.vals[i]

\* a == b on Python values of the modelled types
PyEq(a, b) == a.t = b.t /\ a = b

\* --------------------------------------------------------- digest engine
HexByte(b) == Digits[b + 1]

Pad(n) == [i \in 1..n |-> "f"]

Hex(data) == [i \in 1..Len(data) |-> HexByte(data[i])] \o Pad(MaxDocLen - Len(data))

\* hashlib.sha256(data).hexdigest(): a fixed-length lowercase hex string,
\* modelled collision-free on the bounded documents
sha256_hex(data) == <<"a">> \o Hex(data)

\* hashlib.sha512(data).hexdigest(): twice as long as the SHA-256 digest
sha512_hex(data) == <<"b">> \o Hex(data) \o <<"b">> \o Hex(data)

\* ------------------------------------------------------------ json.dumps
RECURSIVE Dec(_)
Dec(n) == IF n < 10 THEN <<Digits[n + 1]>> ELSE Dec(n \div 10) \o <<Digits[(n % 10) + 1]>>

\* json.encoder.py_encode_basestring escapes (ensure_ascii=False)
EscapeChar(c) ==
  CASE c = QUOTE -> <<BSLASH, QUOTE>>
    [] c = BSLASH -> <<BSLASH, BSLASH>>
    [] c = LF -> <<BSLASH, "n">>
    [] c = CR -> <<BSLASH, "r">>
    [] c = TAB -> <<BSLASH, "t">>
    [] OTHER -> <<c>>

RECURSIVE EscapeAll(_)
EscapeAll(s) == IF s = <<>> THEN <<>> ELSE EscapeChar(Head(s)) \o EscapeAll(Tail(s))

encode_basestring(s) == <<QUOTE>> \o EscapeAll(s) \o <<QUOTE>>

RECURSIVE json_dumps(_)
RECURSIVE DumpItems(_, _, _)
\* members (dict) or elements (list) from position i, separated by ", "
DumpItems(v, i, isDict) ==
  IF i > Len(v.vals) THEN <<>>
  ELSE (IF i > 1 THEN <<",", SP>> ELSE <<>>)
       \o (IF isDict THEN encode_basestring(v.keys[i]) \o <<":", SP>> ELSE <<>>)
       \o json_dumps(v.vals[i])
       \o DumpItems(v, i + 1, isDict)

json_dumps(v) ==
  CASE v.t = "str" -> encode_basestring(v.s)
    [] v.t = "int" -> (IF v.n < 0 THEN <<"-">> \o Dec(-v.n) ELSE Dec(v.n))
    [] v.t = "dict" -> <<"{">> \o DumpItems(v, 1, TRUE) \o <<"}">>
    [] v.t = "list" -> <<"[">> \o DumpItems(v, 1, FALSE) \o <<"]">>
    [] v.t = "bool" -> (IF v.b THEN <<"true">> ELSE <<"false">>)
    [] OTHER -> <<"null">>

RECURSIVE ledger_to_jsonl(_)
ledger_to_jsonl(entries) ==
  IF entries = <<>> THEN <<>>
  ELSE json_dumps(Head(entries)) \o <<LF>> \o ledger_to_jsonl(Tail(entries))

\* ------------------------------------------------------------ json.loads
NoExc == "none"
Ok(v, end) == [exc |-> NoExc, val |-> v, end |-> end]
Err(e) == [exc |-> e, val |-> PyNone, end |-> 0]
JSONDecodeError == Err("JSONDecodeError")

RECURSIVE SkipWS(_, _)
SkipWS(s, i) == IF i <= Len(s) /\ s[i] \in JsonWS THEN SkipWS(s, i + 1) ELSE i

\* json.decoder.py_scanstring, strict: i is the position after the opening quote
RECURSIVE scanstring(_, _, _)
scanstring(s, i, acc) ==
  IF i > Len(s) THEN JSONDecodeError
  ELSE LET c == s[i] IN
    CASE c = QUOTE -> Ok(PyStr(acc), i + 1)
      [] c \in {LF, CR, TAB} -> JSONDecodeError
      [] c = BSLASH ->
           IF i + 1 > Len(s) THEN JSONDecodeError
           ELSE LET e == s[i + 1] IN
             CASE e \in {QUOTE, BSLASH, "/"} -> scanstring(s, i + 2, Append(acc, e))
               [] e = "n" -> scanstring(s, i + 2, Append(acc, LF))
               [] e = "r" -> scanstring(s, i + 2, Append(acc, CR))
               [] e = "t" -> scanstring(s, i + 2, Append(acc, TAB))
               [] e = "b" -> scanstring(s, i + 2, Append(acc, "BS"))
               [] e = "f" -> scanstring(s, i + 2, Append(acc, "FF"))
               [] OTHER -> JSONDecodeError
      [] OTHER -> scanstring(s, i + 1, Append(acc, c))

RECURSIVE ScanDigits(_, _, _)
ScanDigits(s, i, n) ==
  IF i <= Len(s) /\ s[i] \in DigitSet THEN ScanDigits(s, i + 1, 10 * n + DigitVal(s[i]))
  ELSE Ok(PyInt(n), i)

\* json.scanner NUMBER_RE, integer part: -?(0|[1-9][0-9]*)
match_number(s, i) ==
  LET neg == i <= Len(s) /\ s[i] = "-"
      j == IF neg THEN i + 1 ELSE i
  IN IF j > Len(s) \/ s[j] \notin DigitSet THEN JSONDecodeError
     ELSE LET r == IF s[j] = "0" THEN Ok(PyInt(0), j + 1) ELSE ScanDigits(s, j, 0)
          IN IF neg THEN Ok(PyInt(-r.val.n), r.end) ELSE r

RECURSIVE scan_once(_, _, _)
RECURSIVE ParseMembers(_, _, _, _)
RECURSIVE ParseElements(_, _, _, _)

\* the pair loop of json.decoder.JSONObject: i is at the quote opening a key
ParseMembers(s, i, depth, d) ==
  IF i > Len(s) \/ s[i] # QUOTE THEN JSONDecodeError
  ELSE LET k == scanstring(s, i + 1, <<>>) IN
    IF k.exc # NoExc THEN k
    ELSE LET i1 == SkipWS(s, k.end) IN
      IF i1 > Len(s) \/ s[i1] # ":" THEN JSONDecodeError
      ELSE LET v == scan_once(s, SkipWS(s, i1 + 1), depth) IN
        IF v.exc # NoExc THEN v
        ELSE LET i3 == SkipWS(s, v.end)
                 d2 == DictSet(d, k.val.s, v.val)
             IN CASE i3 <= Len(s) /\ s[i3] = "}" -> Ok(d2, i3 + 1)
                  [] i3 <= Len(s) /\ s[i3] = "," -> ParseMembers(s, SkipWS(s, i3 + 1), depth, d2)
                  [] OTHER -> JSONDecodeError

\* json.decoder.JSONObject: i is the position after "{"
JSONObject(s, i, depth) ==
  LET j == SkipWS(s, i) IN
  IF j <= Len(s) /\ s[j] = "}" THEN Ok(PyDict(<<>>, <<>>), j + 1)
  ELSE ParseMembers(s, j, depth, PyDict(<<>>, <<>>))

\* the value loop of json.decoder.JSONArray: i is at the start of a value
ParseElements(s, i, depth, vals) ==
  LET v == scan_once(s, i, depth) IN
  IF v.exc # NoExc THEN v
  ELSE LET i2 == SkipWS(s, v.end)
           vals2 == Append(vals, v.val)
       IN CASE i2 <= Len(s) /\ s[i2] = "]" -> Ok(PyList(vals2), i2 + 1)
            [] i2 <= Len(s) /\ s[i2] = "," -> ParseElements(s, SkipWS(s, i2 + 1), depth, vals2)
            [] OTHER -> JSONDecodeError

\* json.decoder.JSONArray: i is the position after "["
JSONArray(s, i, depth) ==
  LET j == SkipWS(s, i) IN
  IF j <= Len(s) /\ s[j] = "]" THEN Ok(PyList(<<>>), j + 1)
  ELSE ParseElements(s, j, depth, <<>>)

\* json.scanner scan_once: each nested object or array is one more level of
\* interpreter recursion, and exceeding the limit raises RecursionError
scan_once(s, i, depth) ==
  IF i > Len(s) THEN JSONDecodeError
  ELSE LET c == s[i] IN
    CASE c = QUOTE -> scanstring(s, i + 1, <<>>)
      [] c \in {"{", "["} ->
           IF depth + 1 > RecursionLimit THEN Err("RecursionError")
           ELSE IF c = "{" THEN JSONObject(s, i + 1, depth + 1)
           ELSE JSONArray(s, i + 1, depth + 1)
      [] c = "null" -> Ok(PyNone, i + 1)
      [] c = "true" -> Ok(PyBool(TRUE), i + 1)
      [] c = "false" -> Ok(PyBool(FALSE), i + 1)
      [] c = "-" \/ c \in DigitSet -> match_number(s, i)
      [] OTHER -> JSONDecodeError

\* json.loads(ln): one value, then only whitespace up to the end
json_loads(s) ==
  LET r == scan_once(s, SkipWS(s, 1), 0) IN
  IF r.exc # NoExc THEN r
  ELSE IF SkipWS(s, r.end) # Len(s) + 1 THEN JSONDecodeError
  ELSE r

\* ------------------------------------------------------------ parse_jsonl
\* bytes.decode("utf-8", errors="ignore"): undecodable bytes are dropped
decode_utf8_ignore(content) == SelectSeq(content, LAMBDA c : c # BAD)

\* the first line boundary at or after position i, Len(s) + 1 when none
BreakAt(s, i) ==
  LET B == {j \in i..Len(s) : s[j] \in LineBreaks} IN
  IF B = {} THEN Len(s) + 1 ELSE CHOOSE j \in B : \A k \in B : j <= k

\* str.splitlines(): CR LF is one boundary, no empty last line
RECURSIVE SplitFrom(_, _)
SplitFrom(s, i) ==
  IF i > Len(s) THEN <<>>
  ELSE LET j == BreakAt(s, i)
           next == IF j < Len(s) /\ s[j] = CR /\ s[j + 1] = LF THEN j + 2 ELSE j + 1
       IN <<SubSeq(s, i, j - 1)>> \o SplitFrom(s, next)

splitlines(s) == SplitFrom(s, 1)

RECURSIVE lstrip(_)
lstrip(s) == IF s # <<>> /\ Head(s) \in StripWS THEN lstrip(Tail(s)) ELSE s

RECURSIVE rstrip(_)
rstrip(s) == IF s # <<>> /\ s[Len(s)] \in StripWS THEN rstrip(SubSeq(s, 1, Len(s) - 1)) ELSE s

strip(s) == rstrip(lstrip(s))

\* the for loop of parse_jsonl over lines[i..]: only json.JSONDecodeError is
\* caught, any other exception leaves the function
RECURSIVE ParseLines(_, _, _)
ParseLines(lines, i, out) ==
  IF i > Len(lines) THEN [exc |-> NoExc, out |-> out]
  ELSE LET ln == strip(lines[i]) IN
    IF ln = <<>> THEN ParseLines(lines, i + 1, out)
    ELSE LET r == json_loads(ln) IN
      CASE r.exc = NoExc -> ParseLines(lines, i + 1, Append(out, r.val))
        [] r.exc = "JSONDecodeError" -> ParseLines(lines, i + 1, out)
        [] OTHER -> [exc |-> r.exc, out |-> <<>>]

parse_jsonl(content) == ParseLines(splitlines(decode_utf8_ignore(content)), 1, <<>>)

\* ------------------------------------------------------- evidence builder
\* datetime.isoformat() of the UTC clock reading t
isoformat(t) == Dec(t) \o <<"+00:00">>

now_iso_utc(t) == isoformat(t)

EvidenceKeys ==
  << <<"schema">>, <<"filename">>, <<"size_bytes">>, <<"sha256">>, <<"sha512">>,
     <<"computed_at_utc">>, <<"notes">> >>

build_evidence_package_len_of_name(file_bytes, filename, notes, t) ==
  PyDict(EvidenceKeys,
         << PyStr(<<"edu.unie.ud1.evidence.v1">>), PyStr(filename), PyInt(Len(filename)),
            PyStr(sha256_hex(file_bytes)), PyStr(sha512_hex(file_bytes)),
            PyStr(now_iso_utc(t)), PyStr(notes) >>)

\* t is the system clock at the call
build_evidence_package(file_bytes, filename, notes, t) ==
  PyDict(EvidenceKeys,
         << PyStr(<<"edu.unie.ud1.evidence.v1">>), PyStr(filename), PyInt(Len(file_bytes)),
            PyStr(sha256_hex(file_bytes)), PyStr(sha512_hex(file_bytes)),
            PyStr(now_iso_utc(t)), PyStr(notes) >>)

\* ---------------------------------------------------------------- inputs
Bytes == {0, 1}
Docs == UNION {[1..n -> Bytes] : n \in 0..MaxDocLen}

\* names and notes a user can supply: ASCII, non-ASCII with U+2028, and
\* characters json.dumps escapes
FileNames == { <<"a">>, <<"a", LS, EACUTE>> }
NotesTexts == { <<>>, <<QUOTE, BSLASH, LF>> }

\* a file_uploader value: None, or an uploaded file
NoFile == [present |-> FALSE, data |-> <<>>]
File(data) == [present |-> TRUE, data |-> data]

\* evidence of document <<0>> registered in some other session
ForeignRecords == { build_evidence_package(<<0>>, f, <<>>, 0) : f \in FileNames }
ForeignLedgers == { ledger_to_jsonl(<<r>>) : r \in ForeignRecords }

DeepLine == [i \in 1..(RecursionLimit + 1) |-> "["]

\* a hand-edited ledger: a blank line, an object around an undecodable byte,
\* a valid record, a line of garbage, and an object whose sha256 is null
EditedLedger ==
  <<SP, CR, LF, "{", BAD, "}", SP, LF>>
  \o ledger_to_jsonl(<<build_evidence_package(<<0>>, <<"a">>, <<>>, 0)>>)
  \o <<"x", ":", LF, TAB, "{", QUOTE, "sha256", QUOTE, ":", "null", "}">>

\* contents a user can upload as the external .jsonl file
ExternalFiles == ForeignLedgers \cup { EditedLedger, <<"1", LF>>, DeepLine }

\* parse_jsonl on the fixed upload contents, tabulated once
ParsedExternalFiles == [x \in ExternalFiles |-> parse_jsonl(x)]

\* parse_jsonl(ver_ledger.read())
read_and_parse(f) ==
  IF f.data \in ExternalFiles THEN ParsedExternalFiles[f.data] ELSE parse_jsonl(f.data)

\* ----------------------------------------------------------------- state
\* has_ledger, ledger: the "ledger" key of st.session_state and its list
\* clock: the UTC system clock, read once per evidence package and later at
\* each reading;  run: what the last script run did
VARIABLES has_ledger, ledger, clock, run
vars == <<has_ledger, ledger, clock, run>>

\* a script run: the button pressed, the verification inputs, what the
\* verification handler computed and displayed, the exception that stopped
\* the run, and the text handed to the browser by a ledger download
Outcome(op, ver_file, ver_ledger, vhash, matches, msg, exc, download) ==
  [op |-> op, ver_file |-> ver_file, ver_ledger |-> ver_ledger, vhash |-> vhash,
   matches |-> matches, msg |-> msg, exc |-> exc, download |-> download]

NoVerify(op, download) == Outcome(op, NoFile, NoFile, <<>>, <<>>, "", NoExc, download)

Init ==
  /\ has_ledger = FALSE
  /\ ledger = <<>>
  /\ clock = 0
  /\ run = NoVerify("start", <<>>)

session_state_init_always(has, led) == <<>>

\* if "ledger" not in st.session_state: st.session_state.ledger = []
session_state_init(has, led) == IF ~has THEN <<>> ELSE led

\* ------------------------------------------------------ Crear evidencia
\* the button exists only while a document is uploaded (up is not None)
CrearEvidencia(file_bytes, filename, notes) ==
  /\ has_ledger
  /\ Len(ledger) < MaxLedger
  /\ LET L0 == session_state_init(has_ledger, ledger)
         pkg == build_evidence_package(file_bytes, filename, notes, clock)
     IN ledger' = Append(L0, pkg)
  /\ has_ledger' = TRUE
  /\ run' = NoVerify("Crear", <<>>)
  /\ clock' = clock + 1

\* ------------------------------------------------------------- Verificar
evids_alias(led) == [evids |-> led, aliased |-> TRUE]

\* evids = list(st.session_state.ledger): a new list with the same items
evids_copy(led) == [evids |-> led, aliased |-> FALSE]

\* evids += items; the session ledger is the same list only when aliased
evids_extend(ev, items) == [ev EXCEPT !.evids = ev.evids \o items]

select_matches_first_only(evids, vhash) ==
  IF \E i \in 1..Len(evids) : evids[i].t # "dict"
  THEN [exc |-> "AttributeError", matches |-> <<>>]
  ELSE LET m == SelectSeq(evids, LAMBDA e : PyEq(DictGet(e, <<"sha256">>), PyStr(vhash)))
       IN [exc |-> NoExc, matches |-> IF m = <<>> THEN m ELSE <<Head(m)>>]

select_matches_first_char(evids, vhash) ==
  IF \E i \in 1..Len(evids) : evids[i].t # "dict"
  THEN [exc |-> "AttributeError", matches |-> <<>>]
  ELSE [exc |-> NoExc,
        matches |-> SelectSeq(evids, LAMBDA e :
                      LET h == DictGet(e, <<"sha256">>)
                      IN h.t = "str" /\ h.s # <<>> /\ Head(h.s) = Head(vhash))]

\* matches = [e for e in evids if e.get("sha256") == vhash]
\* only a dict has .get
select_matches(evids, vhash) ==
  IF \E i \in 1..Len(evids) : evids[i].t # "dict"
  THEN [exc |-> "AttributeError", matches |-> <<>>]
  ELSE [exc |-> NoExc,
        matches |-> SelectSeq(evids, LAMBDA e : PyEq(DictGet(e, <<"sha256">>), PyStr(vhash)))]

VerificarResult(led, out) == [ledger |-> led, out |-> out]

\* lines 316-320: the result shown for the matches m found on evids; L1 is
\* the session ledger after the handler
verificar_report(L1, ver_file, ver_ledger, vhash, m) ==
  IF m.exc # NoExc
  THEN VerificarResult(L1, Outcome("Verificar", ver_file, ver_ledger, vhash, <<>>, "", m.exc, <<>>))
  ELSE VerificarResult(L1, Outcome("Verificar", ver_file, ver_ledger, vhash, m.matches,
                                   IF m.matches # <<>> THEN "success" ELSE "error", NoExc, <<>>))

\* line 315 on the evidence universe ev
verificar_match(L0, ver_file, ver_ledger, vhash, ev) ==
  verificar_report(IF ev.aliased THEN ev.evids ELSE L0, ver_file, ver_ledger, vhash,
                   select_matches(ev.evids, vhash))

\* lines 310-312, given the outcome of parsing the external ledger
verificar_universe(L0, ver_file, ver_ledger, vhash, parsed) ==
  IF parsed.exc # NoExc
  THEN VerificarResult(L0, Outcome("Verificar", ver_file, ver_ledger, vhash, <<>>, "", parsed.exc, <<>>))
  ELSE verificar_match(L0, ver_file, ver_ledger, vhash, evids_extend(evids_copy(L0), parsed.out))

verificar_handler_no_guard(L0, ver_file, ver_ledger) ==
  verificar_report(L0, ver_file, ver_ledger, sha256_hex(ver_file.data),
                   select_matches(L0, sha256_hex(ver_file.data)))

\* the body of `if st.button("Verificar"):`, run on session ledger L0
verificar_handler(L0, ver_file, ver_ledger) ==
  IF ~ver_file.present
  THEN VerificarResult(L0, Outcome("Verificar", ver_file, ver_ledger, <<>>, <<>>, "warning", NoExc, <<>>))
  ELSE verificar_universe(L0, ver_file, ver_ledger, sha256_hex(ver_file.data),
                          IF ver_ledger.present THEN read_and_parse(ver_ledger)
                          ELSE [exc |-> NoExc, out |-> <<>>])

Verificar(ver_file, ver_ledger) ==
  /\ has_ledger
  /\ LET r == verificar_handler(session_state_init(has_ledger, ledger), ver_file, ver_ledger)
     IN /\ ledger' = r.ledger
        /\ run' = r.out
  /\ has_ledger' = TRUE
  /\ UNCHANGED clock

\* ------------------------------------------------- other script reruns
\* a script run with no button pressed (first page load, widget change)
Rerun ==
  /\ ledger' = session_state_init(has_ledger, ledger)
  /\ has_ledger' = TRUE
  /\ run' = NoVerify("Rerun", <<>>)
  /\ UNCHANGED clock

\* pressing "Exportar libro mayor (.jsonl)", rendered by a run that reached
\* the end of the script with a non-empty ledger: the text is downloaded
\* and the script reruns
ExportarLibro ==
  /\ has_ledger
  /\ ledger # <<>>
  /\ run.exc = NoExc
  /\ ledger' = session_state_init(has_ledger, ledger)
  /\ has_ledger' = TRUE
  /\ run' = NoVerify("Exportar", ledger_to_jsonl(ledger))
  /\ UNCHANGED clock

\* the external ledger files the user can pick: None, a fixed file, or
\* an export of this session's ledger
VerLedgerChoices ==
  {NoFile} \cup {File(x) : x \in ExternalFiles}
  \cup (IF ledger # <<>> THEN {File(ledger_to_jsonl(ledger))} ELSE {})

Next ==
  \/ \E b \in Docs, f \in FileNames, n \in NotesTexts : CrearEvidencia(b, f, n)
  \/ \E vl \in VerLedgerChoices, vf \in {NoFile} \cup {File(b) : b \in Docs} : Verificar(vf, vl)
  \/ Rerun
  \/ ExportarLibro

Spec == Init /\ [][Next]_vars

\* ------------------------------------------------------------ properties
IsPrefix(a, b) == Len(a) <= Len(b) /\ SubSeq(b, 1, Len(a)) = a

Field(e, k) == DictGet(e, <<k>>)

\* record e carries the SHA-512 digest of document b
BuiltFrom(e, b) == PyEq(Field(e, "sha512"), PyStr(sha512_hex(b)))

IsVerificar == run.op = "Verificar"

\* C1: the first script run creates the ledger empty; every step leaves the
\* old ledger as a prefix of the new one; a step that changes the ledger is
\* a "Crear evidencia" run, and such a run (the only step that reads the
\* clock) adds exactly one record at the end.
C1_AppendOnly ==
  [][ /\ (~has_ledger => ledger' = <<>>)
      /\ IsPrefix(ledger, ledger')
      /\ (ledger' # ledger => run'.op = "Crear")
      /\ (clock' # clock => run'.op = "Crear" /\ Len(ledger') = Len(ledger) + 1) ]_vars

C1_Witness ==
  /\ Len(ledger) >= 2
  /\ run.op = "Exportar"

\* C2: a verification of document X without external ledger, on a ledger
\* of k >= 1 records all built from X, does not fail and returns exactly
\* those k records in append order, each with sha256 = digest256(X).
C2_FindsEveryRegistration ==
  ( /\ IsVerificar
    /\ run.ver_file.present
    /\ ~run.ver_ledger.present
    /\ ledger # <<>>
    /\ \A i \in 1..Len(ledger) : BuiltFrom(ledger[i], run.ver_file.data) )
  => /\ run.exc = NoExc
     /\ run.matches = ledger
     /\ run.msg = "success"
     /\ \A i \in 1..Len(run.matches) :
          PyEq(Field(run.matches[i], "sha256"), PyStr(sha256_hex(run.ver_file.data)))

C2_Witness ==
  /\ IsVerificar
  /\ run.ver_file.present
  /\ ~run.ver_ledger.present
  /\ Len(ledger) = 2
  /\ \A i \in 1..Len(ledger) : BuiltFrom(ledger[i], run.ver_file.data)
  /\ Len(run.matches) = 2

\* C3: a verification of document Y without external ledger, on a ledger
\* whose records were all built from one document X # Y, returns no match
\* and reports "no evidence".
C3_NegativeCase ==
  ( /\ IsVerificar
    /\ run.ver_file.present
    /\ ~run.ver_ledger.present
    /\ ledger # <<>>
    /\ \E X \in Docs : /\ X # run.ver_file.data
                       /\ \A i \in 1..Len(ledger) : BuiltFrom(ledger[i], X) )
  => /\ run.exc = NoExc
     /\ run.matches = <<>>
     /\ run.msg = "error"

C3_Witness ==
  /\ IsVerificar
  /\ run.ver_file.present
  /\ ~run.ver_ledger.present
  /\ \E X \in Docs : /\ X # run.ver_file.data
                     /\ Len(X) = Len(run.ver_file.data)
                     /\ ledger # <<>>
                     /\ \A i \in 1..Len(ledger) : BuiltFrom(ledger[i], X)
  /\ run.msg = "error"

\* C4: verifying document X against an empty session ledger and the
\* serialization of one record built from X returns exactly that one match.
C4_ExternalMerge ==
  \A r \in ForeignRecords :
    ( /\ IsVerificar
      /\ run.ver_file.present
      /\ ledger = <<>>
      /\ run.ver_ledger = File(ledger_to_jsonl(<<r>>))
      /\ BuiltFrom(r, run.ver_file.data) )
    => /\ run.exc = NoExc
       /\ run.matches = <<r>>

\* C5: a verification run whose external text, if any, deserializes never
\* fails: items that are not objects or lack sha256 are "no match".
C5_VerifyNeverFails ==
  ( /\ IsVerificar
    /\ run.ver_file.present
    /\ run.ver_ledger.present => read_and_parse(run.ver_ledger).exc = NoExc )
  => run.exc = NoExc

\* C6: the exported text of a one-record ledger deserializes to exactly
\* that one record, field for field.
C6_RoundTrip ==
  (run.op = "Exportar" /\ Len(ledger) = 1)
  => parse_jsonl(run.download) = [exc |-> NoExc, out |-> ledger]

\* C7: deserializing an uploaded external ledger never raises.
C7_DeserializeNeverRaises ==
  (IsVerificar /\ run.ver_file.present /\ run.ver_ledger.present)
  => read_and_parse(run.ver_ledger).exc = NoExc

\* C8: a "Verificar" run leaves the session ledger exactly as it was.
C8_VerifierReadOnly ==
  [][ run'.op = "Verificar" => ledger' = ledger ]_vars

C8_Witness ==
  /\ IsVerificar
  /\ run.ver_ledger.present
  /\ ledger # <<>>
  /\ Len(run.matches) > Len(ledger)

\* C9: every record of the session ledger carries the length and both
\* digests of one document b.
C9_RecordConsistency ==
  \A i \in 1..Len(ledger) :
    \E b \in Docs :
      /\ PyEq(Field(ledger[i], "size_bytes"), PyInt(Len(b)))
      /\ PyEq(Field(ledger[i], "sha256"), PyStr(sha256_hex(b)))
      /\ PyEq(Field(ledger[i], "sha512"), PyStr(sha512_hex(b)))

C9_Witness ==
  /\ Len(ledger) = 2
  /\ Field(ledger[1], "sha256") = Field(ledger[2], "sha256")
  /\ Field(ledger[1], "size_bytes") = Field(ledger[2], "size_bytes")
  /\ Field(ledger[1], "filename") # Field(ledger[2], "filename")
  /\ Field(ledger[1], "notes") # Field(ledger[2], "notes")

\* C10: a "Verificar" run without a document shows the warning, computes no
\* digest, matches nothing, reports neither result, does not fail and
\* leaves the session ledger unchanged, with or without an external ledger.
C10_MissingDocument ==
  [][ (run'.op = "Verificar" /\ ~run'.ver_file.present)
      => /\ run'.msg = "warning"
         /\ run'.vhash = <<>>
         /\ run'.matches = <<>>
         /\ run'.exc = NoExc
         /\ ledger' = ledger ]_vars

C10_Witness ==
  /\ IsVerificar
  /\ ~run.ver_file.present
  /\ run.ver_ledger = File(DeepLine)
  /\ ledger # <<>>
  /\ run.msg = "warning"

====
